---- MODULE Spec2Model ----
(***************************************************************************)
(* Model of the JellyfinLibraryStats cog                                   *)
(* (src/jellyfin_library_stats/jellyfin_library_stats.py): the statistics  *)
(* pipeline (fetch_jellyfin_libraries, update_stats), the weekly           *)
(* background loop (background_update, cog_load, cog_unload) and the       *)
(* manual update command.                                                  *)
(*                                                                         *)
(* Text is modelled as a sequence of one-character strings, so that        *)
(* str.lower() and the substring test are computed, not assumed.           *)
(***************************************************************************)
EXTENDS Naturals, Sequences, FiniteSets

\* ------------------------------------------------------------------ bounds
\* Longest media-folder list the modelled server returns.
MaxLibs == 2
\* Number of distinct values datetime.now() can take.
MaxTime == 1
\* Seconds of sleep that pass in one step of the clock.
TickLen == 302400
\* Number of messages the cog has sent to the update channel, at most.
MaxMessages == 2

\* ------------------------------------------------------- program constants
WeekSeconds == 604800
HourSeconds == 3600

\* --------------------------------------------------------------- text, JSON
UpperLetters ==
    <<"A","B","C","D","E","F","G","H","I","J","K","L","M",
      "N","O","P","Q","R","S","T","U","V","W","X","Y","Z">>

LowerLetters ==
    <<"a","b","c","d","e","f","g","h","i","j","k","l","m",
      "n","o","p","q","r","s","t","u","v","w","x","y","z">>

\* str.lower() on one character (ASCII letters).
LowerChar(c) ==
    IF \E i \in 1..26 : UpperLetters[i] = c
    THEN LowerLetters[CHOOSE i \in 1..26 : UpperLetters[i] = c]
    ELSE c

\* str.lower()
Lower(s) == [i \in 1..Len(s) |-> LowerChar(s[i])]

\* Python's `sub in s` for strings.
Contains(sub, s) ==
    \E i \in 1..(Len(s) + 1) :
        /\ i + Len(sub) - 1 <= Len(s)
        /\ SubSeq(s, i, i + Len(sub) - 1) = sub

Digits == <<"0","1","2","3","4","5","6","7","8","9">>

RECURSIVE IntToStr(_)
\* str(n) for a non-negative integer: its decimal digits.
IntToStr(n) ==
    IF n < 10 THEN <<Digits[n + 1]>>
    ELSE IntToStr(n \div 10) \o <<Digits[(n % 10) + 1]>>

\* A JSON value of a library descriptor: a string, null, or a missing key.
Str(s) == [t |-> "str", v |-> s]
Null == [t |-> "null", v |-> <<>>]
Absent == [t |-> "absent", v |-> <<>>]

\* dict.get(key, default): the default only when the key is missing.
Get(lib, key, default) == IF lib[key].t = "absent" THEN default ELSE lib[key]

sPlaylist == <<"p","l","a","y","l","i","s","t">>
sTvshows == <<"t","v","s","h","o","w","s">>
sTv == <<"t","v">>
sSeries == <<"S","e","r","i","e","s">>

\* "playlist" in library_name.lower()
IsPlaylistCaseSensitive(name) == Contains(sPlaylist, name)

IsPlaylist(name) == Contains(sPlaylist, Lower(name))

\* "tvshows" in collection_type or "tv" in collection_type
IsTvOnlyTvshows(collection_type) == Contains(sTvshows, collection_type)

IsTv(collection_type) ==
    Contains(sTvshows, collection_type) \/ Contains(sTv, collection_type)

\* The query of the item-count request.
ItemsQuery(library_id, collection_type) ==
    IF IsTv(collection_type)
    THEN [ParentId |-> library_id, IncludeItemTypes |-> sSeries,
          Recursive |-> TRUE, Limit |-> 0]
    ELSE [ParentId |-> library_id, IncludeItemTypes |-> <<>>,
          Recursive |-> TRUE, Limit |-> 0]

\* library_stats[name] = count on an insertion-ordered dict: an existing key
\* keeps its place and takes the new value, a new key is appended.
DictSet(d, name, count) ==
    IF \E k \in 1..Len(d) : d[k].name = name
    THEN [k \in 1..Len(d) |->
            IF d[k].name = name THEN [name |-> name, count |-> count] ELSE d[k]]
    ELSE Append(d, [name |-> name, count |-> count])

\* embed.add_field(name=library_name, value=str(item_count), inline=False),
\* for each item of the dict in order.
EmbedFields(d) ==
    [k \in 1..Len(d) |->
        [name |-> d[k].name, value |-> IntToStr(d[k].count), inline |-> FALSE]]


\* -------------------------------------------------------------- environment
sMovies == <<"M","o","v","i","e","s">>
sShows == <<"S","h","o","w","s">>
sPlaylists == <<"P","l","a","y","l","i","s","t","s">>
sLive == <<"L","i","v","e">>
sMusic == <<"M","u","s","i","c">>
sLiveTv == <<"L","i","v","e","T","v">>
sPlaylistsType == <<"p","l","a","y","l","i","s","t","s">>

\* The library descriptors a server may return ({Id, Name, CollectionType}).
\* 4 repeats the display name of 1; 6 and 7 carry a JSON null.
Catalogue ==
    { [Id |-> 1, Name |-> Str(sMovies),    CollectionType |-> Str(Lower(sMovies))],
      [Id |-> 2, Name |-> Str(sShows),     CollectionType |-> Str(sTvshows)],
      [Id |-> 3, Name |-> Str(sPlaylists), CollectionType |-> Str(sPlaylistsType)],
      [Id |-> 4, Name |-> Str(sMovies),    CollectionType |-> Absent],
      [Id |-> 5, Name |-> Str(sLive),      CollectionType |-> Str(sLiveTv)],
      [Id |-> 6, Name |-> Str(sMusic),     CollectionType |-> Null],
      [Id |-> 7, Name |-> Null,            CollectionType |-> Str(sTvshows)] }

\* What the server answers to one request.
Response(status, total) ==
    [kind |-> "response", status |-> status, TotalRecordCount |-> total]
Exception == [kind |-> "exception", status |-> 0, TotalRecordCount |-> 0]

ItemResponses == {Response(200, 120), Response(200, 15), Response(500, 0), Exception}

\* Media-folder lists of at most n descriptors, no descriptor twice.
LibLists(n) ==
    UNION { { l \in [1..k -> Catalogue] :
                \A i, j \in 1..k : l[i] = l[j] => i = j } : k \in 0..n }

\* A server: its answer to /Library/MediaFolders and, when that is a list,
\* its answer to the /Items request of each listed library.
Servers(n) ==
    { [folders |-> [kind |-> "exception", status |-> 0, Items |-> <<>>], items |-> <<>>],
      [folders |-> [kind |-> "response", status |-> 500, Items |-> <<>>], items |-> <<>>] }
    \cup
    UNION { { [folders |-> [kind |-> "response", status |-> 200, Items |-> l],
               items |-> r] : r \in [1..Len(l) -> ItemResponses] } : l \in LibLists(n) }

\* The example of the specification: Movies 120, Shows 15 (series), Playlists.
ExampleLibraries ==
    << [Id |-> 1, Name |-> Str(sMovies),    CollectionType |-> Str(Lower(sMovies))],
       [Id |-> 2, Name |-> Str(sShows),     CollectionType |-> Str(sTvshows)],
       [Id |-> 3, Name |-> Str(sPlaylists), CollectionType |-> Str(sPlaylistsType)] >>

ExampleServer ==
    [folders |-> [kind |-> "response", status |-> 200, Items |-> ExampleLibraries],
     items |-> <<Response(200, 120), Response(200, 15), Response(200, 15)>>]

\* The server that answers the listing with `libs` and the count requests
\* with `answers`.
ServerOf(libs, answers) ==
    [folders |-> [kind |-> "response", status |-> 200, Items |-> libs],
     items |-> answers]

\* The servers of the full specification, one for each way a run can go: the
\* listing request raises, is answered 500, lists nothing, lists a library
\* that is counted, one whose count fails, and only a playlist library.
SchedServers ==
    { [folders |-> [kind |-> "exception", status |-> 0, Items |-> <<>>], items |-> <<>>],
      [folders |-> [kind |-> "response", status |-> 500, Items |-> <<>>], items |-> <<>>],
      ServerOf(<<>>, <<>>),
      ServerOf(<<ExampleLibraries[1]>>, <<Response(200, 120)>>),
      ServerOf(<<ExampleLibraries[2]>>, <<Response(500, 0)>>),
      ServerOf(<<ExampleLibraries[3]>>, <<Response(200, 15)>>) }

\* The servers of the specification with a changing server: one library
\* counted, another library whose count fails, and a failing listing.
RaceServers ==
    { ServerOf(<<ExampleLibraries[1]>>, <<Response(200, 120)>>),
      ServerOf(<<ExampleLibraries[2]>>, <<Response(500, 0)>>),
      [folders |-> [kind |-> "response", status |-> 500, Items |-> <<>>], items |-> <<>>] }

ChannelId == 11
MessageId == 7

\* The ids of the messages the cog sends to the update channel: the one a
\* set-up configuration tracks when the cog is constructed, and the ones the
\* setup command sends.
MsgIds == MessageId .. (MessageId + MaxMessages - 1)

\* The stored configuration. None is 0 for the ids and the timestamp and the
\* empty text for the URL and the key (all falsy in the code's tests).
FreshConfig ==
    [jellyfin_url |-> "", jellyfin_api_key |-> "", update_channel_id |-> 0,
     update_message_id |-> 0, last_update |-> 0]

CompleteConfig ==
    [jellyfin_url |-> "http://jellyfin", jellyfin_api_key |-> "token",
     update_channel_id |-> ChannelId, update_message_id |-> MessageId,
     last_update |-> 0]

\* Configurations the store can hold when the cog is constructed: never set
\* up, set up, set up with an empty key, set up until channel.send failed.
Configs ==
    { FreshConfig,
      CompleteConfig,
      [CompleteConfig EXCEPT !.jellyfin_api_key = ""],
      [CompleteConfig EXCEPT !.update_message_id = 0] }

Times == 1..MaxTime

NoEmbed == [title |-> "", description |-> 0, fields |-> <<>>]

\* A message id the cog has not sent a message under.
NoMessage == [sent |-> FALSE, exists |-> FALSE, content |-> "", embed |-> NoEmbed]

\* What channel.send("Updating Freia library statistics...") creates.
SentMessage ==
    [sent |-> TRUE, exists |-> TRUE,
     content |-> "Updating Freia library statistics...", embed |-> NoEmbed]

Procs == {"bg", "cmd"}

\* The locals of one update_stats call (and of the fetch it makes).
NoLocals ==
    [channel_id |-> 0, message_id |-> 0,
     libraries |-> <<>>, idx |-> 0, library_stats |-> <<>>,
     requests |-> <<>>, listed |-> FALSE,
     fetched |-> "pending", flog |-> "", ulog |-> "",
     published |-> FALSE, embed |-> NoEmbed, edited |-> FALSE,
     ret |-> "pending"]

VARIABLES
    config,     \* the persistent configuration store
    server,     \* the media server
    channel,    \* whether the update channel exists
    message,    \* the messages of the update channel, by id
    pc,         \* each caller's position in update_stats
    loc,        \* each caller's locals
    sched,      \* the position of cog_load / background_update
    ready,      \* the host connection is established
    closed,     \* bot.is_closed()
    sleepLeft,  \* seconds left of the loop's current sleep
    slept,      \* seconds of the current sleep already slept
    cmdReply,   \* the last reply sent to the invoker of a command
    command     \* the command being executed, "" when none is

vars == <<config, server, channel, message, pc, loc, sched, ready, closed,
          sleepLeft, slept, cmdReply, command>>

plat == <<channel, message>>
host == <<ready, closed>>
timer == <<sleepLeft, slept>>
cmd == <<cmdReply, command>>


\* ------------------------------------------------------------- update_stats
\* `return False` of update_stats, after logging why.
ReturnFalse(l, why) == [l EXCEPT !.ulog = why, !.ret = "False"]

\* An exception leaving update_stats.
Raise(l, why) == [l EXCEPT !.ulog = why, !.ret = "raised"]

\* `return None` of fetch_jellyfin_libraries, after logging why.
ReturnNone(l, why) == [l EXCEPT !.flog = why, !.fetched = "None"]

\* except discord.NotFound: log, return False.
OnNotFoundRaises(l) == Raise(l, "message_not_found")

OnNotFound(l) == ReturnFalse(l, "message_not_found")

\* update_stats has returned to its caller: its frame is gone. What is kept
\* is the outcome of the call (what was logged, what was returned).
Outcome(l) ==
    [NoLocals EXCEPT !.idx = l.idx, !.listed = l.listed, !.fetched = l.fetched,
                     !.flog = l.flog, !.ulog = l.ulog, !.published = l.published,
                     !.edited = l.edited, !.ret = l.ret]

\* A caller enters update_stats.
Enter(p) ==
    /\ pc' = [pc EXCEPT ![p] = "us_config"]
    /\ loc' = [loc EXCEPT ![p] = NoLocals]

\* The three configuration reads and the completeness test. The reads are
\* outside the try block: a failing store raises out of update_stats.
UsConfig(p) ==
    /\ pc[p] = "us_config"
    /\ \/ /\ pc' = [pc EXCEPT ![p] = "returned"]
          /\ loc' = [loc EXCEPT ![p] = Raise(@, "config_store")]
       \/ /\ config.jellyfin_url = "" \/ config.update_channel_id = 0
                \/ config.update_message_id = 0
          /\ pc' = [pc EXCEPT ![p] = "returned"]
          /\ loc' = [loc EXCEPT ![p] = ReturnFalse(@, "config_incomplete")]
       \/ /\ config.jellyfin_url # "" /\ config.update_channel_id # 0
                /\ config.update_message_id # 0
          /\ pc' = [pc EXCEPT ![p] = "fl_config"]
          /\ loc' = [loc EXCEPT ![p] =
                        [@ EXCEPT !.channel_id = config.update_channel_id,
                                  !.message_id = config.update_message_id]]
    /\ UNCHANGED <<config, server, plat, sched, host, timer, cmd>>

\* fetch_jellyfin_libraries: the URL and key test.
FlConfigUrlOnly(p) ==
    /\ pc[p] = "fl_config"
    /\ IF config.jellyfin_url = ""
       THEN /\ pc' = [pc EXCEPT ![p] = "us_stats"]
            /\ loc' = [loc EXCEPT ![p] = ReturnNone(@, "not_configured")]
       ELSE /\ pc' = [pc EXCEPT ![p] = "fl_list"]
            /\ UNCHANGED loc
    /\ UNCHANGED <<config, server, plat, sched, host, timer, cmd>>

FlConfig(p) ==
    /\ pc[p] = "fl_config"
    /\ IF config.jellyfin_url = "" \/ config.jellyfin_api_key = ""
       THEN /\ pc' = [pc EXCEPT ![p] = "us_stats"]
            /\ loc' = [loc EXCEPT ![p] = ReturnNone(@, "not_configured")]
       ELSE /\ pc' = [pc EXCEPT ![p] = "fl_list"]
            /\ UNCHANGED loc
    /\ UNCHANGED <<config, server, plat, sched, host, timer, cmd>>

\* GET /Library/MediaFolders.
FlList(p) ==
    /\ pc[p] = "fl_list"
    /\ LET r == server.folders
           l == [loc[p] EXCEPT !.listed = TRUE]
       IN  IF r.kind = "exception"
           THEN /\ pc' = [pc EXCEPT ![p] = "us_stats"]
                /\ loc' = [loc EXCEPT ![p] = ReturnNone(l, "general_exception")]
           ELSE IF r.status # 200
           THEN /\ pc' = [pc EXCEPT ![p] = "us_stats"]
                /\ loc' = [loc EXCEPT ![p] = ReturnNone(l, "list_status")]
           ELSE /\ pc' = [pc EXCEPT ![p] = "fl_loop"]
                /\ loc' = [loc EXCEPT ![p] =
                              [l EXCEPT !.libraries = r.Items, !.idx = 1,
                                        !.library_stats = <<>>]]
    /\ UNCHANGED <<config, server, plat, sched, host, timer, cmd>>

\* The count recorded for a library from the answer to its /Items request.
CountOf(r) ==
    IF r.kind = "exception" THEN 0
    ELSE IF r.status = 200 THEN r.TotalRecordCount
    ELSE 0

\* The server's answer to the /Items request for a library: the answer it
\* has for the library while it lists it; while it does not (its libraries
\* changed after the run listed them), no answer when it is unreachable, its
\* error status when it answers with one, and otherwise a count of 0 items.
ItemsAnswer(srv, library) ==
    IF \E k \in 1..Len(srv.folders.Items) : srv.folders.Items[k] = library
    THEN srv.items[CHOOSE k \in 1..Len(srv.folders.Items) :
                      srv.folders.Items[k] = library]
    ELSE IF srv.folders.kind = "exception" THEN Exception
    ELSE IF srv.folders.status # 200 THEN Response(srv.folders.status, 0)
    ELSE Response(200, 0)

\* One iteration of `for library in libraries`.
FlLoop(p) ==
    /\ pc[p] = "fl_loop"
    /\ loc[p].idx <= Len(loc[p].libraries)
    /\ LET l == loc[p]
           library == l.libraries[l.idx]
           library_name == Get(library, "Name", Null)
           collection_type == Get(library, "CollectionType", Str(<<>>))
       IN  IF library_name.t = "null"
           THEN \* None.lower() raises; the outer except returns None
                /\ pc' = [pc EXCEPT ![p] = "us_stats"]
                /\ loc' = [loc EXCEPT ![p] = ReturnNone(l, "general_exception")]
           ELSE IF IsPlaylist(library_name.v)
           THEN /\ pc' = pc
                /\ loc' = [loc EXCEPT ![p] = [l EXCEPT !.idx = @ + 1]]
           ELSE IF collection_type.t = "null"
           THEN /\ pc' = [pc EXCEPT ![p] = "us_stats"]
                /\ loc' = [loc EXCEPT ![p] = ReturnNone(l, "general_exception")]
           ELSE LET q == ItemsQuery(library.Id, Lower(collection_type.v))
                    r == ItemsAnswer(server, library)
                IN  /\ pc' = pc
                    /\ loc' = [loc EXCEPT ![p] =
                          [l EXCEPT
                             !.requests = Append(@, [pos |-> l.idx, query |-> q,
                                                    response |-> r]),
                             !.library_stats = DictSet(@, library_name.v, CountOf(r)),
                             !.idx = @ + 1]]
    /\ UNCHANGED <<config, server, plat, sched, host, timer, cmd>>

\* `if library_stats: return library_stats; else: return None`.
FlEnd(p) ==
    /\ pc[p] = "fl_loop"
    /\ loc[p].idx > Len(loc[p].libraries)
    /\ pc' = [pc EXCEPT ![p] = "us_stats"]
    /\ IF loc[p].library_stats # <<>>
       THEN loc' = [loc EXCEPT ![p] = [@ EXCEPT !.flog = "ok", !.fetched = "stats"]]
       ELSE loc' = [loc EXCEPT ![p] = ReturnNone(@, "no_stats")]
    /\ UNCHANGED <<config, server, plat, sched, host, timer, cmd>>

\* `if library_stats:` and the channel lookup.
UsStats(p) ==
    /\ pc[p] = "us_stats"
    /\ IF loc[p].fetched = "None"
       THEN /\ pc' = [pc EXCEPT ![p] = "returned"]
            /\ loc' = [loc EXCEPT ![p] = ReturnFalse(@, "could_not_fetch")]
       ELSE IF ~channel
       THEN /\ pc' = [pc EXCEPT ![p] = "returned"]
            /\ loc' = [loc EXCEPT ![p] =
                          ReturnFalse([@ EXCEPT !.published = TRUE], "channel_not_found")]
       ELSE /\ pc' = [pc EXCEPT ![p] = "us_embed"]
            /\ loc' = [loc EXCEPT ![p] = [@ EXCEPT !.published = TRUE]]
    /\ UNCHANGED <<config, server, plat, sched, host, timer, cmd>>

\* The embed: title, "Updated at: <now>", one field per dict item.
UsEmbed(p) ==
    /\ pc[p] = "us_embed"
    /\ \E now \in Times :
          loc' = [loc EXCEPT ![p] =
                    [@ EXCEPT !.embed =
                        [title |-> "Freia Library Statistics",
                         description |-> now,
                         fields |-> EmbedFields(loc[p].library_stats)]]]
    /\ pc' = [pc EXCEPT ![p] = "us_fetch_message"]
    /\ UNCHANGED <<config, server, plat, sched, host, timer, cmd>>

\* channel.fetch_message(message_id)
UsFetchMessageSkipsEdit(p) ==
    /\ pc[p] = "us_fetch_message"
    /\ \/ /\ message[loc[p].message_id].exists /\ channel
          /\ pc' = [pc EXCEPT ![p] = "us_save"]
          /\ UNCHANGED loc
       \/ /\ ~(message[loc[p].message_id].exists /\ channel)
          /\ pc' = [pc EXCEPT ![p] = "returned"]
          /\ loc' = [loc EXCEPT ![p] = OnNotFound(@)]
       \/ /\ pc' = [pc EXCEPT ![p] = "returned"]
          /\ loc' = [loc EXCEPT ![p] = ReturnFalse(@, "edit_error")]
    /\ UNCHANGED <<config, server, plat, sched, host, timer, cmd>>

UsFetchMessage(p) ==
    /\ pc[p] = "us_fetch_message"
    /\ \/ /\ message[loc[p].message_id].exists /\ channel
          /\ pc' = [pc EXCEPT ![p] = "us_edit"]
          /\ UNCHANGED loc
       \/ /\ ~(message[loc[p].message_id].exists /\ channel)
          /\ pc' = [pc EXCEPT ![p] = "returned"]
          /\ loc' = [loc EXCEPT ![p] = OnNotFound(@)]
       \/ \* any other failure of the chat platform
          /\ pc' = [pc EXCEPT ![p] = "returned"]
          /\ loc' = [loc EXCEPT ![p] = ReturnFalse(@, "edit_error")]
    /\ UNCHANGED <<config, server, plat, sched, host, timer, cmd>>

\* message.edit(content="", embed=embed)
UsEditAppends(p) ==
    /\ pc[p] = "us_edit"
    /\ \/ /\ message[loc[p].message_id].exists /\ channel
          /\ message' = [message EXCEPT ![loc[p].message_id] =
                             [@ EXCEPT !.content = "",
                                       !.embed = [loc[p].embed EXCEPT !.fields =
                                                     message[loc[p].message_id].embed.fields
                                                        \o loc[p].embed.fields]]]
          /\ pc' = [pc EXCEPT ![p] = "us_save"]
          /\ loc' = [loc EXCEPT ![p] = [@ EXCEPT !.edited = TRUE]]
       \/ /\ ~(message[loc[p].message_id].exists /\ channel)
          /\ pc' = [pc EXCEPT ![p] = "returned"]
          /\ loc' = [loc EXCEPT ![p] = OnNotFound(@)]
          /\ UNCHANGED message
       \/ /\ pc' = [pc EXCEPT ![p] = "returned"]
          /\ loc' = [loc EXCEPT ![p] = ReturnFalse(@, "edit_error")]
          /\ UNCHANGED message
    /\ UNCHANGED <<config, server, channel, sched, host, timer, cmd>>

UsEditKeepsFirst(p) ==
    /\ pc[p] = "us_edit"
    /\ \/ /\ message[loc[p].message_id].exists /\ channel
          /\ message' = IF message[loc[p].message_id].content = ""
                        THEN message
                        ELSE [message EXCEPT ![loc[p].message_id] =
                                 [@ EXCEPT !.content = "", !.embed = loc[p].embed]]
          /\ pc' = [pc EXCEPT ![p] = "us_save"]
          /\ loc' = [loc EXCEPT ![p] = [@ EXCEPT !.edited = TRUE]]
       \/ /\ ~(message[loc[p].message_id].exists /\ channel)
          /\ pc' = [pc EXCEPT ![p] = "returned"]
          /\ loc' = [loc EXCEPT ![p] = OnNotFound(@)]
          /\ UNCHANGED message
       \/ /\ pc' = [pc EXCEPT ![p] = "returned"]
          /\ loc' = [loc EXCEPT ![p] = ReturnFalse(@, "edit_error")]
          /\ UNCHANGED message
    /\ UNCHANGED <<config, server, channel, sched, host, timer, cmd>>

UsEdit(p) ==
    /\ pc[p] = "us_edit"
    /\ \/ /\ message[loc[p].message_id].exists /\ channel
          /\ message' = [message EXCEPT ![loc[p].message_id] =
                             [@ EXCEPT !.content = "", !.embed = loc[p].embed]]
          /\ pc' = [pc EXCEPT ![p] = "us_save"]
          /\ loc' = [loc EXCEPT ![p] = [@ EXCEPT !.edited = TRUE]]
       \/ /\ ~(message[loc[p].message_id].exists /\ channel)
          /\ pc' = [pc EXCEPT ![p] = "returned"]
          /\ loc' = [loc EXCEPT ![p] = OnNotFound(@)]
          /\ UNCHANGED message
       \/ /\ pc' = [pc EXCEPT ![p] = "returned"]
          /\ loc' = [loc EXCEPT ![p] = ReturnFalse(@, "edit_error")]
          /\ UNCHANGED message
    /\ UNCHANGED <<config, server, channel, sched, host, timer, cmd>>

\* config.last_update.set(now); return True
UsSave(p) ==
    /\ pc[p] = "us_save"
    /\ \E now \in Times : config' = [config EXCEPT !.last_update = now]
    /\ pc' = [pc EXCEPT ![p] = "returned"]
    /\ loc' = [loc EXCEPT ![p] = [@ EXCEPT !.ulog = "ok", !.ret = "True"]]
    /\ UNCHANGED <<server, plat, sched, host, timer, cmd>>

\* One step of update_stats by caller p.
Pipeline(p) ==
    \/ UsConfig(p)
    \/ FlConfig(p)
    \/ FlList(p)
    \/ FlLoop(p)
    \/ FlEnd(p)
    \/ UsStats(p)
    \/ UsEmbed(p)
    \/ UsFetchMessage(p)
    \/ UsEdit(p)
    \/ UsSave(p)

\* ------------------------------------------------------- the media server
\* The libraries of the server, or its health, change.
ServerChange ==
    /\ server' \in RaceServers \ {server}
    /\ UNCHANGED <<config, plat, pc, loc, sched, host, timer, cmd>>

\* ------------------------------------------------------- the chat platform
\* A message of the cog is deleted by someone else.
DeleteMessage ==
    /\ \E m \in MsgIds :
          /\ message[m].exists
          /\ message' = [message EXCEPT ![m].exists = FALSE]
    /\ UNCHANGED <<config, server, channel, pc, loc, sched, host, timer, cmd>>

\* The update channel is deleted.
DeleteChannel ==
    /\ channel
    /\ channel' = FALSE
    /\ UNCHANGED <<config, server, message, pc, loc, sched, host, timer, cmd>>

\* --------------------------------------------------------------- cog_load
\* cog_load: the initial update_stats(force_update=True).
CogLoad ==
    /\ sched = "unloaded"
    /\ sched' = "load_update"
    /\ Enter("bg")
    /\ UNCHANGED <<config, server, plat, host, timer, cmd>>

\* cog_load after the initial update: create the background task. An
\* exception out of update_stats leaves cog_load before it creates the task.
LoadReturn ==
    /\ sched = "load_update"
    /\ pc["bg"] = "returned"
    /\ sched' = IF loc["bg"].ret = "raised" THEN "load_failed" ELSE "wait_ready"
    /\ pc' = [pc EXCEPT !["bg"] = "idle"]
    /\ loc' = [loc EXCEPT !["bg"] = Outcome(@)]
    /\ UNCHANGED <<config, server, plat, host, timer, cmd>>

\* ------------------------------------------------------ background_update
\* What the loop does when update_stats comes back: the 7-day sleep after a
\* return (True or False alike: the value is not looked at), the 1-hour
\* sleep of the except clause after an exception.
AfterRunNoHandler(ret) ==
    IF ret = "raised"
    THEN [sched |-> "exited", seconds |-> 0]
    ELSE [sched |-> "sleep_week", seconds |-> WeekSeconds]

AfterRunShortWeek(ret) ==
    IF ret = "raised"
    THEN [sched |-> "sleep_hour", seconds |-> HourSeconds]
    ELSE [sched |-> "sleep_week", seconds |-> HourSeconds]

AfterRun(ret) ==
    IF ret = "raised"
    THEN [sched |-> "sleep_hour", seconds |-> HourSeconds]
    ELSE [sched |-> "sleep_week", seconds |-> WeekSeconds]

\* `while not self.bot.is_closed():` followed, when it holds, by the call of
\* update_stats.
LoopTest ==
    IF closed
    THEN /\ sched' = "exited"
         /\ UNCHANGED <<pc, loc>>
    ELSE /\ sched' = "running"
         /\ Enter("bg")

\* wait_until_ready() returns.
BgReady ==
    /\ sched = "wait_ready"
    /\ ready
    /\ LoopTest
    /\ UNCHANGED <<config, server, plat, host, timer, cmd>>

\* update_stats came back to the loop: go to sleep.
BgRunReturn ==
    /\ sched = "running"
    /\ pc["bg"] = "returned"
    /\ sched' = AfterRun(loc["bg"].ret).sched
    /\ sleepLeft' = AfterRun(loc["bg"].ret).seconds
    /\ slept' = 0
    /\ pc' = [pc EXCEPT !["bg"] = "idle"]
    /\ loc' = [loc EXCEPT !["bg"] = Outcome(@)]
    /\ UNCHANGED <<config, server, plat, host, cmd>>

\* Time passes while the loop sleeps.
Tick ==
    /\ sched \in {"sleep_week", "sleep_hour"}
    /\ sleepLeft > 0
    /\ LET d == IF sleepLeft < TickLen THEN sleepLeft ELSE TickLen
       IN  /\ sleepLeft' = sleepLeft - d
           /\ slept' = slept + d
    /\ UNCHANGED <<config, server, plat, pc, loc, sched, host, cmd>>

\* asyncio.sleep returns: back to the loop test.
BgWake ==
    /\ sched \in {"sleep_week", "sleep_hour"}
    /\ sleepLeft = 0
    /\ LoopTest
    /\ UNCHANGED <<config, server, plat, host, timer, cmd>>

\* cog_unload: cancel the task, if cog_load created one. The cancellation is
\* raised at the task's current await and is not an Exception.
CogUnloadAsFailure ==
    /\ sched \in {"wait_ready", "running", "sleep_week", "sleep_hour"}
    /\ sched' = "sleep_hour"
    /\ sleepLeft' = HourSeconds
    /\ slept' = 0
    /\ pc' = [pc EXCEPT !["bg"] = "idle"]
    /\ loc' = [loc EXCEPT !["bg"] = Raise(Outcome(@), "cancelled")]
    /\ UNCHANGED <<config, server, plat, host, cmd>>

CogUnload ==
    /\ sched \in {"wait_ready", "running", "sleep_week", "sleep_hour"}
    /\ sched' = "cancelled"
    /\ pc' = [pc EXCEPT !["bg"] = "idle"]
    /\ loc' = [loc EXCEPT !["bg"] = Outcome(@)]
    /\ UNCHANGED <<config, server, plat, host, timer, cmd>>

\* ------------------------------------------------------------------ the host
HostReady ==
    /\ ~ready
    /\ ready' = TRUE
    /\ UNCHANGED <<config, server, plat, pc, loc, sched, closed, timer, cmd>>

HostClose ==
    /\ ~closed
    /\ closed' = TRUE
    /\ UNCHANGED <<config, server, plat, pc, loc, sched, ready, timer, cmd>>

\* ----------------------------------------------------------- manual_update
\* The cog's commands exist while the cog is loaded.
Loaded == sched \in {"wait_ready", "running", "sleep_week", "sleep_hour", "exited"}

\* `jellyfinstats update`: "Starting manual update...", then update_stats.
ManualUpdate ==
    /\ Loaded
    /\ pc["cmd"] = "idle"
    /\ Enter("cmd")
    /\ cmdReply' = "Starting manual update..."
    /\ command' = "update"
    /\ UNCHANGED <<config, server, plat, sched, host, timer>>

\* The command's reply; an exception out of update_stats ends the command
\* without one.
ManualReturn ==
    /\ command = "update"
    /\ pc["cmd"] = "returned"
    /\ pc' = [pc EXCEPT !["cmd"] = "idle"]
    /\ command' = ""
    /\ cmdReply' = IF loc["cmd"].ret = "True" THEN "Statistics manually updated!"
                   ELSE IF loc["cmd"].ret = "False" THEN "Manual update failed."
                   ELSE cmdReply
    /\ loc' = [loc EXCEPT !["cmd"] = Outcome(@)]
    /\ UNCHANGED <<config, server, plat, sched, host, timer>>

\* ------------------------------------------------------ setup_jellyfin_stats
\* The arguments of the setup command: a URL (its trailing slash stripped),
\* an API key and a channel that the command framework has resolved.
SetupUrl == "http://jellyfin"
SetupKey == "token"

\* `jellyfinstats setup <url> <key> <channel>`: the URL, the key and the
\* channel id are stored.
SetupConfig ==
    /\ Loaded
    /\ pc["cmd"] = "idle"
    /\ channel
    /\ \E m \in MsgIds : ~message[m].sent
    /\ config' = [config EXCEPT !.jellyfin_url = SetupUrl,
                                !.jellyfin_api_key = SetupKey,
                                !.update_channel_id = ChannelId]
    /\ pc' = [pc EXCEPT !["cmd"] = "su_send"]
    /\ command' = "setup"
    /\ UNCHANGED <<server, plat, loc, sched, host, timer, cmdReply>>

\* The message to be updated is sent and its id stored; the connection test
\* is answered and replied to; update_stats(force_update=True) is called. A
\* channel deleted in the meantime makes channel.send raise, which ends the
\* command.
SetupSend ==
    /\ command = "setup"
    /\ pc["cmd"] = "su_send"
    /\ IF ~channel
       THEN /\ pc' = [pc EXCEPT !["cmd"] = "idle"]
            /\ command' = ""
            /\ UNCHANGED <<config, message, loc, cmdReply>>
       ELSE LET m == CHOOSE i \in MsgIds :
                        /\ ~message[i].sent
                        /\ \A j \in MsgIds : ~message[j].sent => i <= j
            IN  /\ message' = [message EXCEPT ![m] = SentMessage]
                /\ config' = [config EXCEPT !.update_message_id = m]
                /\ \E success \in BOOLEAN :
                      cmdReply' = IF success
                                  THEN "Connection to Jellyfin has been tested and works!"
                                  ELSE "Configuration saved, but the connection test failed."
                /\ Enter("cmd")
                /\ UNCHANGED command
    /\ UNCHANGED <<server, channel, sched, host, timer>>

\* update_stats came back to the setup command: its value is dropped and
\* the command replies that the configuration is completed. An exception out
\* of update_stats ends the command without that reply.
SetupReturn ==
    /\ command = "setup"
    /\ pc["cmd"] = "returned"
    /\ pc' = [pc EXCEPT !["cmd"] = "idle"]
    /\ command' = ""
    /\ cmdReply' = IF loc["cmd"].ret = "raised" THEN cmdReply
                   ELSE "Jellyfin stats configuration completed!"
    /\ loc' = [loc EXCEPT !["cmd"] = Outcome(@)]
    /\ UNCHANGED <<config, server, plat, sched, host, timer>>

\* ------------------------------------------------------------ specifications
InitWith(servers) ==
    /\ config \in Configs
    /\ server \in servers
    /\ channel = TRUE
    /\ message = [m \in MsgIds |->
                     IF m = config.update_message_id THEN SentMessage ELSE NoMessage]
    /\ pc = [p \in Procs |-> "idle"]
    /\ loc = [p \in Procs |-> NoLocals]
    /\ sched = "unloaded"
    /\ ready = FALSE
    /\ closed = FALSE
    /\ sleepLeft = 0
    /\ slept = 0
    /\ cmdReply = ""
    /\ command = ""

\* One update_stats run (the one cog_load makes) against every server.
InitPipeline == InitWith(Servers(MaxLibs) \cup {ExampleServer})

NextPipeline ==
    \/ CogLoad
    \/ Pipeline("bg")
    \/ LoadReturn
    \/ DeleteMessage
    \/ DeleteChannel

SpecPipeline == InitPipeline /\ [][NextPipeline]_vars


\* The cog in use: load, the background loop, the update command, the host
\* and the chat platform.
Init == InitWith(SchedServers)

Next ==
    \/ CogLoad
    \/ LoadReturn
    \/ BgReady
    \/ Pipeline("bg")
    \/ BgRunReturn
    \/ Tick
    \/ BgWake
    \/ CogUnload
    \/ HostReady
    \/ HostClose
    \/ ManualUpdate
    \/ Pipeline("cmd")
    \/ ManualReturn
    \/ DeleteMessage
    \/ DeleteChannel

Spec == Init /\ [][Next]_vars


\* The cog without its commands: load, the background loop, the host and the
\* chat platform.
LoopNext ==
    \/ CogLoad
    \/ LoadReturn
    \/ BgReady
    \/ Pipeline("bg")
    \/ BgRunReturn
    \/ Tick
    \/ BgWake
    \/ CogUnload
    \/ HostReady
    \/ HostClose
    \/ DeleteMessage
    \/ DeleteChannel

\* The steps whose completion the runtime guarantees: every await of the
\* background task's update_stats ends (with an answer or an exception), time
\* passes while the task sleeps, and a task that can run is run.
LoopFairness ==
    /\ WF_vars(Pipeline("bg"))
    /\ WF_vars(BgRunReturn)
    /\ WF_vars(Tick)
    /\ WF_vars(BgWake)

FairLoopSpec == Init /\ [][LoopNext]_vars /\ LoopFairness

FairSpec == Spec /\ LoopFairness


\* The cog in use and being set up: the setup command as well.
SetupNext ==
    \/ Next
    \/ SetupConfig
    \/ SetupSend
    \/ SetupReturn

SetupSpec == Init /\ [][SetupNext]_vars


\* A scheduled run and the update command against a server whose libraries
\* change: load, the loop up to its sleep, the update command, the server.
InitRace == InitWith(RaceServers)

RaceNext ==
    \/ CogLoad
    \/ LoadReturn
    \/ HostReady
    \/ BgReady
    \/ Pipeline("bg")
    \/ BgRunReturn
    \/ ManualUpdate
    \/ Pipeline("cmd")
    \/ ManualReturn
    \/ ServerChange

RaceSpec == InitRace /\ [][RaceNext]_vars

\* ------------------------------------------------- vocabulary of the claims
\* The name contains "playlist" in some letter case.
MentionsPlaylist(name) ==
    \E i \in 1..Len(name) :
        /\ i + 7 <= Len(name)
        /\ \A j \in 1..8 :
              \E u \in 1..26 :
                 /\ LowerLetters[u] = sPlaylist[j]
                 /\ name[i + j - 1] \in {LowerLetters[u], UpperLetters[u]}

\* The enumerator keeps the library: its name does not mention a playlist.
Retained(lib) == ~(lib.Name.t = "str" /\ MentionsPlaylist(lib.Name.v))

\* The positions of the retained libraries of a list.
RetainedPositions(libs) == { i \in 1..Len(libs) : Retained(libs[i]) }

\* The lower-cased collection type contains "tv".
HasTv(ct) ==
    /\ ct.t = "str"
    /\ \E i \in 1..Len(ct.v) :
          /\ i + 1 <= Len(ct.v)
          /\ ct.v[i] \in {"t", "T"}
          /\ ct.v[i + 1] \in {"v", "V"}

\* The count the server reported in answer r; 0 when it reported none.
Reported(r) ==
    IF r.kind = "response" /\ r.status >= 200 /\ r.status <= 299
    THEN r.TotalRecordCount
    ELSE 0

\* The answer to the count request of the library at position i of p's list.
AnswerAt(p, i) ==
    loc[p].requests[CHOOSE k \in 1..Len(loc[p].requests) :
                        loc[p].requests[k].pos = i].response

Requested(p, i) == \E k \in 1..Len(loc[p].requests) : loc[p].requests[k].pos = i

\* p's fetch obtained the media-folder list.
GotList(p) == loc[p].idx >= 1

\* p's fetch returned a report.
HasReport(p) == loc[p].fetched = "stats"

\* p's update_stats has come back.
Returned(p) == pc[p] = "returned"

\* --------------------------------------------------------------------- C1
\* C1: no report, no field of the tracked message and no item-count request
\* is for a library whose name contains "playlist" in any letter case.
C1_NoPlaylistInReport ==
    /\ \A p \in Procs :
          /\ \A k \in 1..Len(loc[p].library_stats) :
                ~MentionsPlaylist(loc[p].library_stats[k].name)
          /\ \A k \in 1..Len(loc[p].embed.fields) :
                ~MentionsPlaylist(loc[p].embed.fields[k].name)
          /\ \A k \in 1..Len(loc[p].requests) :
                Retained(loc[p].libraries[loc[p].requests[k].pos])
    /\ \A m \in MsgIds : \A k \in 1..Len(message[m].embed.fields) :
          ~MentionsPlaylist(message[m].embed.fields[k].name)

\* A run over a list with a playlist library has edited the message.
C1_Witness ==
    \E p \in Procs :
        /\ Returned(p) /\ loc[p].ret = "True"
        /\ \E i \in 1..Len(loc[p].libraries) : ~Retained(loc[p].libraries[i])
        /\ message[MessageId].embed.fields = loc[p].embed.fields
        /\ message[MessageId].embed.fields # <<>>

\* --------------------------------------------------------------------- C2
\* C2: a count request carries IncludeItemTypes=Series exactly when the
\* library's lower-cased collection type contains "tv", it is otherwise the
\* unfiltered recursive listing, it asks for zero items, and every retained
\* library the loop has passed has its request.
C2_SeriesFilterIffTv ==
    \A p \in Procs :
        /\ \A k \in 1..Len(loc[p].requests) :
              LET q == loc[p].requests[k].query
                  lib == loc[p].libraries[loc[p].requests[k].pos]
              IN  /\ q.ParentId = lib.Id
                  /\ q.Limit = 0
                  /\ q.Recursive
                  /\ (q.IncludeItemTypes = sSeries) <=> HasTv(lib.CollectionType)
                  /\ ~HasTv(lib.CollectionType) => q.IncludeItemTypes = <<>>
        /\ HasReport(p) =>
              \A i \in RetainedPositions(loc[p].libraries) : Requested(p, i)

\* One run has counted a "LiveTv" library with the filter and a library
\* without a collection type without it.
C2_Witness ==
    \E p \in Procs :
        /\ HasReport(p)
        /\ \E k \in 1..Len(loc[p].requests) :
              /\ loc[p].requests[k].query.IncludeItemTypes = sSeries
              /\ loc[p].libraries[loc[p].requests[k].pos].CollectionType = Str(sLiveTv)
        /\ \E k \in 1..Len(loc[p].requests) :
              /\ loc[p].requests[k].query.IncludeItemTypes = <<>>
              /\ loc[p].libraries[loc[p].requests[k].pos].CollectionType = Absent


\* --------------------------------------------------------------------- C3
\* The count request of the library at position i came back non-2xx.
FailedAt(p, i) ==
    /\ Requested(p, i)
    /\ AnswerAt(p, i).kind = "response"
    /\ ~(AnswerAt(p, i).status >= 200 /\ AnswerAt(p, i).status <= 299)

\* The report has an entry for the library at position i with count n.
HasEntry(p, i, n) ==
    /\ loc[p].libraries[i].Name.t = "str"
    /\ \E k \in 1..Len(loc[p].library_stats) :
          /\ loc[p].library_stats[k].name = loc[p].libraries[i].Name.v
          /\ loc[p].library_stats[k].count = n

\* C3: when the fetch has ended over a list in which the count request of a
\* retained library came back non-2xx, it ended with a report that has an
\* entry for every other retained library with the count the server reported
\* for it, and the failed library's entry records 0.
C3_FailedCountIsContained ==
    \A p \in Procs :
        (/\ GotList(p)
         /\ loc[p].fetched # "pending"
         /\ \E i \in RetainedPositions(loc[p].libraries) : FailedAt(p, i))
        => /\ HasReport(p)
           /\ \A i \in RetainedPositions(loc[p].libraries) :
                 /\ Requested(p, i)
                 /\ HasEntry(p, i, Reported(AnswerAt(p, i)))

\* --------------------------------------------------------------------- C4
\* C4: a run that obtained the list fails with "No statistics found" exactly
\* when it retains no library; then it attempts no channel lookup, message
\* fetch or edit and returns False; and a run that retains a library attempts
\* to publish.
C4_EmptyResultIffNothingRetained ==
    \A p \in Procs :
        (GotList(p) /\ Returned(p)) =>
            /\ (loc[p].flog = "no_stats") <=> (RetainedPositions(loc[p].libraries) = {})
            /\ loc[p].flog = "no_stats" =>
                  /\ ~loc[p].published
                  /\ ~loc[p].edited
                  /\ loc[p].ret = "False"
            /\ RetainedPositions(loc[p].libraries) # {} => loc[p].published

\* --------------------------------------------------------------------- C6
RECURSIVE ExpectedReport(_, _, _)
\* The retained libraries of p's list from position i on, in the server's
\* order, each with the count the server reported for it.
ExpectedReport(p, libs, i) ==
    IF i > Len(libs) THEN <<>>
    ELSE IF Retained(libs[i])
    THEN <<[name |-> libs[i].Name.v, count |-> Reported(AnswerAt(p, i))]>>
            \o ExpectedReport(p, libs, i + 1)
    ELSE ExpectedReport(p, libs, i + 1)

\* C6: the report lists the retained libraries in the server's order, each
\* with the count the server reported for it, and the embed has one field per
\* entry in that order, its value the count in decimal.
C6_ReportInServerOrder ==
    \A p \in Procs :
        HasReport(p) =>
            /\ loc[p].library_stats = ExpectedReport(p, loc[p].libraries, 1)
            /\ pc[p] \in {"us_fetch_message", "us_edit", "us_save"} =>
                  /\ Len(loc[p].embed.fields) = Len(loc[p].library_stats)
                  /\ \A k \in 1..Len(loc[p].library_stats) :
                        loc[p].embed.fields[k].name = loc[p].library_stats[k].name

\* --------------------------------------------------------------------- C7
\* C7: the report has as many entries as the list has retained libraries,
\* and every retained library has an entry carrying its own count.
C7_OneEntryPerRetainedLibrary ==
    \A p \in Procs :
        HasReport(p) =>
            /\ Len(loc[p].library_stats) =
                  Cardinality(RetainedPositions(loc[p].libraries))
            /\ \A i \in RetainedPositions(loc[p].libraries) :
                  HasEntry(p, i, Reported(AnswerAt(p, i)))


\* ------------------------------------------------------- the loop's claims
\* The background loop is asleep between two runs.
Sleeping == sched \in {"sleep_week", "sleep_hour"}

\* The background loop has just entered update_stats for a scheduled run.
RunStarts == sched = "running" /\ pc["bg"] = "us_config"

\* update_stats has come back to the background loop.
RunEnded == sched = "running" /\ pc["bg"] = "returned"

\* The loop's last run failed before any library was counted: the URL or the
\* key was missing, or the listing request failed or was not answered 2xx.
CrossCuttingFailure ==
    /\ loc["bg"].ret = "False"
    /\ \/ loc["bg"].ulog = "config_incomplete" /\ config.jellyfin_url = ""
       \/ loc["bg"].flog = "not_configured"
       \/ loc["bg"].listed /\ ~GotList("bg") /\ loc["bg"].fetched = "None"

\* --------------------------------------------------------------------- C5
\* The step is p's update_stats ending because the tracked message is gone.
NotFoundStep(p) ==
    /\ pc[p] \in {"us_fetch_message", "us_edit"}
    /\ pc'[p] = "returned"
    /\ loc'[p].ulog = "message_not_found"

\* C5: when the tracked message does not resolve, update_stats returns False
\* and does not raise, the step leaves the message as it was, the run has
\* not edited it, and the background loop goes on to another scheduled run
\* (unless the host is closed or the task cancelled).
C5_MessageNotFoundIsReported ==
    /\ [][\A p \in Procs :
             NotFoundStep(p) =>
                /\ loc'[p].ret = "False"
                /\ ~loc'[p].edited
                /\ message' = message
                /\ sched' = sched]_vars
    /\ [](\A p \in Procs :
             (Returned(p) /\ loc[p].ulog = "message_not_found") => loc[p].ret = "False")
    /\ []((RunEnded /\ loc["bg"].ulog = "message_not_found")
             => <>(RunStarts \/ closed \/ sched = "cancelled"))

\* The loop has slept its whole sleep after a run that found no message, and
\* the host is still open: its next step starts another run.
C5_Witness ==
    /\ Sleeping /\ sleepLeft = 0 /\ slept > 0
    /\ loc["bg"].ulog = "message_not_found"
    /\ loc["bg"].ret = "False"
    /\ ~message[MessageId].exists
    /\ ~closed

\* --------------------------------------------------------------------- C8
\* C8: after a scheduled run that failed with a cross-cutting failure the
\* loop is in its back-off: a sleep of one hour.
C8_CrossCuttingFailureBacksOff ==
    (Sleeping /\ CrossCuttingFailure) =>
        /\ sched = "sleep_hour"
        /\ sleepLeft + slept = 60 * 60

\* --------------------------------------------------------------------- C9
\* C9: after every scheduled run, whatever came back, the loop starts
\* another scheduled run, unless the host is closed or the task cancelled.
C9_LoopSurvivesFailures ==
    [](RunEnded => <>(RunStarts \/ closed \/ sched = "cancelled"))

\* A scheduled run starts after the one-hour sleep that follows an exception
\* out of update_stats.
C9_Witness ==
    /\ RunStarts
    /\ slept = 60 * 60
    /\ sleepLeft = 0
    /\ ~closed

\* -------------------------------------------------------------------- C10
\* C10: while the loop sleeps after a scheduled run that returned True, the
\* sleep is one of 7 days, and the next scheduled run starts only when all
\* of it has been slept.
C10_WeekBetweenRuns ==
    [][(Sleeping /\ loc["bg"].ret = "True") =>
          /\ sleepLeft + slept = 7 * 24 * 60 * 60
          /\ sleepLeft' + slept' = 7 * 24 * 60 * 60 \/ sched' # sched
          /\ (sched' = "running" => slept = 7 * 24 * 60 * 60 /\ sleepLeft = 0)]_vars

\* The 7 days after a successful scheduled run have been slept.
C10_Witness ==
    /\ sched = "sleep_week"
    /\ loc["bg"].ret = "True"
    /\ loc["bg"].edited
    /\ slept = 7 * 24 * 60 * 60
    /\ sleepLeft = 0

\* -------------------------------------------------------------------- C11
\* The background task is suspended: in wait_until_ready, in one of its two
\* sleeps, or at an await of a scheduled run that has not come back yet.
Suspended ==
    \/ sched = "wait_ready"
    \/ Sleeping
    \/ sched = "running" /\ pc["bg"] # "returned"

\* C11: the only step that takes the suspended background task somewhere
\* its own code does not lead (the next loop test from a sleep or from the
\* wait for the host, the next await of a run in flight) is the
\* cancellation, and it stops the loop: the task is cancelled, not put in
\* the one-hour sleep of the failure handler, the run in flight is dropped,
\* and from then on no scheduled run starts and no sleep is entered.
C11_CancelStopsLoop ==
    [][/\ (sched = "wait_ready" \/ Sleeping) =>
              sched' \in {sched, "running", "exited", "cancelled"}
       /\ (sched = "running" /\ pc["bg"] # "returned") =>
              sched' \in {"running", "cancelled"}
       /\ (Suspended /\ sched' = "cancelled") =>
              /\ pc'["bg"] = "idle"
              /\ UNCHANGED <<config, plat, timer>>
       /\ sched = "cancelled" =>
              /\ sched' = "cancelled"
              /\ pc'["bg"] = "idle"
              /\ UNCHANGED timer]_vars

\* The task was cancelled while a scheduled run was waiting for the answer
\* to one of its item-count requests, and the host is still open.
C11_Witness ==
    /\ sched = "cancelled"
    /\ loc["bg"].ret = "pending"
    /\ loc["bg"].listed
    /\ loc["bg"].idx >= 1
    /\ ready
    /\ ~closed

\* -------------------------------------------------------------------- C12
\* A run of update_stats made by cog_load or by the loop it starts is in
\* flight.
LoadTriggeredRun ==
    /\ sched \in {"load_update", "running"}
    /\ pc["bg"] # "idle"

\* C12: while a run triggered by loading the cog is in flight, the host has
\* reported ready.
C12_NoRunBeforeReady == LoadTriggeredRun => ready

\* -------------------------------------------------------------------- C13
\* The step is one of a command: the command's position or its locals change.
CommandStep == pc'["cmd"] # pc["cmd"] \/ loc'["cmd"] # loc["cmd"]

\* The replies that tell the invoker the run succeeded, and that it failed.
SuccessReplies == {"Statistics manually updated!"}
FailureReplies == {"Manual update failed."}

\* C13: a step of a command leaves the background loop as it is (its
\* position, its run in flight, its sleep), and when update_stats comes
\* back to a command with True or False the command's reply tells its
\* invoker which.
C13_CommandReportsAndKeepsLoop ==
    [][CommandStep =>
          /\ UNCHANGED <<sched, sleepLeft, slept>>
          /\ pc'["bg"] = pc["bg"]
          /\ loc'["bg"] = loc["bg"]
          /\ (pc["cmd"] = "returned" /\ loc["cmd"].ret = "True") =>
                 cmdReply' \in SuccessReplies
          /\ (pc["cmd"] = "returned" /\ loc["cmd"].ret = "False") =>
                 cmdReply' \in FailureReplies]_vars

\* -------------------------------------------------------------------- C14
\* The step is p's edit of the message, applied.
PublishStep(p) == pc[p] = "us_edit" /\ pc'[p] = "us_save"

\* The message p is about to edit already shows p's report: an earlier run
\* has published the same report to it.
SameReportPublished(p) ==
    /\ message[loc[p].message_id].content = ""
    /\ message[loc[p].message_id].embed.title = loc[p].embed.title
    /\ message[loc[p].message_id].embed.fields = loc[p].embed.fields

\* C14: when a run publishes to the tracked message the report the message
\* already shows, the message is edited in place (no message is created,
\* no other message is touched), its content, title and fields after the
\* edit are those before it, only the timestamp is the run's own, and the
\* run goes on to return True.
C14_RepublishIsIdempotent ==
    [][\A p \in Procs :
          /\ (PublishStep(p) /\ SameReportPublished(p)) =>
                LET m == loc[p].message_id
                IN  /\ message'[m].exists
                    /\ message'[m].content = message[m].content
                    /\ message'[m].embed.title = message[m].embed.title
                    /\ message'[m].embed.fields = message[m].embed.fields
                    /\ message'[m].embed.description = loc[p].embed.description
                    /\ \A i \in MsgIds \ {m} : message'[i] = message[i]
                    /\ loc'[p].edited
          /\ (pc[p] = "us_save" /\ pc'[p] = "returned") =>
                loc'[p].ret = "True"]_vars

\* Two runs, the loop's and the update command's, have each edited the
\* tracked message with the server's report and returned True.
C14_Witness ==
    /\ loc["bg"].ret = "True" /\ loc["bg"].edited
    /\ loc["cmd"].ret = "True" /\ loc["cmd"].edited
    /\ message[MessageId].exists
    /\ message[MessageId].content = ""
    /\ message[MessageId].embed.fields # <<>>
    /\ config.last_update # 0

\* -------------------------------------------------------------------- C15
\* Processing the descriptor raises before the count request is made: its
\* Name or its CollectionType is null.
RaisesWhenProcessed(lib) ==
    \/ Get(lib, "Name", Null).t = "null"
    \/ Get(lib, "CollectionType", Str(<<>>)).t = "null"

\* C15: when the fetch has ended over a list with a retained library whose
\* processing raises, it went through the whole list and did not end in the
\* handler of the whole fetch, and the report records 0 for that library
\* when it has a name.
C15_BadLibraryIsContained ==
    \A p \in Procs :
        (GotList(p) /\ loc[p].fetched # "pending") =>
            \A i \in RetainedPositions(loc[p].libraries) :
                RaisesWhenProcessed(loc[p].libraries[i]) =>
                    /\ loc[p].idx = Len(loc[p].libraries) + 1
                    /\ loc[p].flog # "general_exception"
                    /\ loc[p].libraries[i].Name.t = "str" => HasEntry(p, i, 0)

\* -------------------------------------------------------------------- C17
\* The listing request was not answered 2xx, or raised a transport error.
ListingFailed ==
    \/ server.folders.kind = "exception"
    \/ ~(server.folders.status >= 200 /\ server.folders.status <= 299)

\* The run has made no request, looked up no channel and edited nothing,
\* and when it has come back it returned False.
AbortedBeforeCounting(p) ==
    /\ loc[p].requests = <<>>
    /\ ~loc[p].published
    /\ ~loc[p].edited
    /\ loc[p].embed = NoEmbed
    /\ Returned(p) => loc[p].ret = "False" \/ loc[p].ulog = "config_store"

\* C17: a run made while the URL or the key is not stored makes no HTTP
\* request at all, and a run whose listing request failed makes no
\* item-count request; either run looks up no channel, edits no message and
\* returns False (unless the configuration store itself raised).
C17_EnumerationFailureAborts ==
    \A p \in Procs :
        /\ (pc[p] # "idle"
               /\ (config.jellyfin_url = "" \/ config.jellyfin_api_key = "")) =>
              /\ ~loc[p].listed
              /\ AbortedBeforeCounting(p)
        /\ (pc[p] # "idle" /\ loc[p].listed /\ ListingFailed) =>
              /\ AbortedBeforeCounting(p)
              /\ Returned(p) => loc[p].ret = "False"

\* A run whose listing request was answered 500 has come back.
C17_Witness ==
    /\ Returned("bg")
    /\ loc["bg"].listed
    /\ server.folders.kind = "response"
    /\ server.folders.status = 500
    /\ loc["bg"].ret = "False"
    /\ loc["bg"].ulog = "could_not_fetch"

\* -------------------------------------------------------------------- C16
\* The loop's scheduled run and the update command's run are both in flight.
BothInFlight ==
    /\ sched = "running"
    /\ pc["bg"] \notin {"idle", "returned"}
    /\ command = "update"
    /\ pc["cmd"] \notin {"idle", "returned"}

\* C16: nothing keeps a run from editing the message while another run is
\* in flight or after another run has edited it: every applied edit leaves
\* the message showing the report and the timestamp of the run that made
\* it, so the message shows the report of the edit applied last.
C16_LastWriterWins ==
    [][\A p \in Procs :
          PublishStep(p) =>
             /\ message'[loc[p].message_id].embed = loc[p].embed
             /\ message'[loc[p].message_id].content = ""
             /\ \A q \in Procs \ {p} :
                   /\ pc'[q] = pc[q]
                   /\ loc'[q] = loc[q]]_vars

\* The scheduled run and the manual run are both in flight and have both
\* edited the message. The manual run listed the server's libraries as they
\* are now, the scheduled run listed them before they changed; the message
\* shows the scheduled run's report, whose edit was applied last.
C16_Witness ==
    /\ BothInFlight
    /\ pc["bg"] = "us_save" /\ loc["bg"].edited
    /\ pc["cmd"] = "us_save" /\ loc["cmd"].edited
    /\ loc["cmd"].libraries = server.folders.Items
    /\ loc["bg"].libraries # server.folders.Items
    /\ loc["bg"].embed.fields # loc["cmd"].embed.fields
    /\ message[MessageId].embed = loc["bg"].embed

\* -------------------------------------------------------------------- C18
\* The loop's last run failed because the URL or the key is not stored.
ConfigErrorRun ==
    /\ loc["bg"].ret = "False"
    /\ \/ loc["bg"].ulog = "config_incomplete" /\ config.jellyfin_url = ""
       \/ loc["bg"].flog = "not_configured"

\* C18: while the loop sleeps after a run that failed because the URL or
\* the key is not stored, and they are still not stored, no step starts a
\* scheduled run.
C18_NoRunUntilConfigured ==
    [][(/\ Sleeping
        /\ ConfigErrorRun
        /\ (config.jellyfin_url = "" \/ config.jellyfin_api_key = ""))
          => sched' # "running"]_vars

\* -------------------------------------------------------------------- C19
\* The positions of a run of update_stats.
RunPositions ==
    {"us_config", "fl_config", "fl_list", "fl_loop", "us_stats", "us_embed",
     "us_fetch_message", "us_edit", "us_save"}

\* The step is one of p's run of update_stats.
RunStep(p) ==
    /\ pc[p] \in RunPositions
    /\ pc'[p] # pc[p] \/ loc'[p] # loc[p]

\* The step is p's update_stats coming back to its caller.
ReturnStep(p) == RunStep(p) /\ pc'[p] = "returned"

\* C19: no step of a run changes the stored URL, key, channel id or message
\* id; the only step of a run that changes the stored timestamp is the one
\* that follows the run's own applied edit and returns True; a run that
\* comes back with True has edited the message, and one that comes back
\* otherwise left the whole configuration as it was.
C19_TimestampOnlyAfterEdit ==
    [][\A p \in Procs :
          RunStep(p) =>
             /\ config'.jellyfin_url = config.jellyfin_url
             /\ config'.jellyfin_api_key = config.jellyfin_api_key
             /\ config'.update_channel_id = config.update_channel_id
             /\ config'.update_message_id = config.update_message_id
             /\ config'.last_update # config.last_update =>
                   /\ pc[p] = "us_save"
                   /\ loc[p].edited
                   /\ ReturnStep(p)
                   /\ loc'[p].ret = "True"
             /\ (ReturnStep(p) /\ loc'[p].ret = "True") =>
                   /\ loc'[p].edited
                   /\ config'.last_update \in Times
             /\ (ReturnStep(p) /\ loc'[p].ret # "True") => config' = config]_vars

\* A run has written the timestamp; a later scheduled run found the message
\* gone and came back with False, the timestamp still stored.
C19_Witness ==
    /\ RunEnded
    /\ loc["bg"].ret = "False"
    /\ loc["bg"].ulog = "message_not_found"
    /\ ~loc["bg"].edited
    /\ config.last_update \in Times
    /\ config.update_message_id = MessageId

====
